---- MODULE Spec2Model ----
(***************************************************************************)
(* A model of Dugy/state_machine (src/state_machine.hpp): the scheduler    *)
(* StateMachineManager, the driving threads it creates (LoopingThread),    *)
(* the caller thread that uses its public interface, and the units         *)
(* (TimedObject / StateMachine) it fires.                                  *)
(*                                                                         *)
(* Granularity.  tick() is modelled statement by statement wherever two    *)
(* threads can meet: one step for each access to a shared structure, a     *)
(* mutex acquisition, setupTurn and the unit's tick body.  The caller's    *)
(* operations are one step each.                                           *)
(***************************************************************************)
EXTENDS Integers, Sequences, FiniteSets, TLC

\* ------------------------------------------------------------------ bounds
\* tick() is no longer entered once tickOrder_ has reached MaxTicks
MaxTicks == 2
\* the clock is read in 0..MaxTime
MaxTime == 1
\* at most MaxLoops LoopingThread objects are ever constructed
MaxLoops == 2
\* pause() is not called at depth MaxDepth
MaxDepth == 2
\* unpause() is not called at depth -MaxUnder
MaxUnder == 1
\* addTimedObject is not called on a registry of MaxReg entries
MaxReg == 2

\* ------------------------------------------------------- program constants
\* basePeriod of the heater example's manager, in ms
BasePeriod == 100
\* the periods callers pass to addTimedObject: 100 and 200 are exact
\* multiples of BasePeriod, 50 is below it and 150 is not a multiple
Periods == {50, 100, 150, 200}
\* an empty shared_ptr / nullptr
NullUnit == 0
\* units 1 and 2 are plain TimedObjects (as the heater example's
\* TemperatureController), unit 3 is a StateMachine (as its
\* TemperatureProgrammer), unit 4 is a TimedObject that owns a Timer (as the
\* test's AutomatonOne)
Units == {1, 2, 3, 4}
PlainUnits == {1, 2}
SMUnits == {3}
TimerUnits == {4}
\* what the tick body of a unit with a Timer may do with it
TimerOps == {"make", "deactivate", "read"}
\* the values of the State enum the model uses (STARTING, HEATING)
States == {0, 1}
\* the values of Input::value / Output::value the model uses
Values == {0, 1}
\* the LoopingThread objects
Loops == 1 .. MaxLoops

VARIABLES
    machines_,      \* the registry: a sequence of [div, unit, stamp]
    input_,         \* the shared Input
    output_,        \* the shared Output: Output::value[id] of each unit
    tickOrder_,     \* the tick counter
    paused_,        \* the pause depth
    inputMutex_,    \* "free", "caller" or "loop"
    outputMutex_,   \* "free", "caller" or "loop"
    inputTrigger_,  \* whether an input trigger is set
    outputTrigger_, \* whether an output trigger is set
    loop_,          \* the LoopingThread the unique_ptr owns, 0 when empty
    thr,            \* each LoopingThread's driving thread: position and locals
    unit,           \* each unit's fields
    now,            \* the last value read from the system clock
    crashed,        \* the process has been terminated by a fault
    hist            \* history: what the claims speak about and the code does not store

vars == << machines_, input_, output_, tickOrder_, paused_, inputMutex_,
           outputMutex_, inputTrigger_, outputTrigger_, loop_, thr, unit,
           now, crashed, hist >>

Min(a, b) == IF a < b THEN a ELSE b

\* --------------------------------------------------------------- TimedObject
\* TimedObject::setupTurn
TimedSetupTurn(o, time) ==
    [o EXCEPT !.timeIncrease_ = time - o.timeOfLastFreeze_,
              !.timeOfLastFreeze_ = time]

\* TimedObject::lastPeriod
lastPeriod(o) == o.timeIncrease_

\* TimedObject::frameTime
frameTime(o) == o.timeOfLastFreeze_

\* -------------------------------------------------------------- StateMachine
\* the decay of stateChanged_ in StateMachine::setupTurn
Decay(c) ==
    IF c = "THIS_TICK" THEN "PREVIOUS_TICK"
    ELSE IF c = "PREVIOUS_TICK" THEN "BEFORE"
    ELSE c

\* StateMachine::setupTurn
SMSetupTurn(o, time) ==
    LET b == TimedSetupTurn(o, time)
    IN  [b EXCEPT !.stateTimer_ = o.stateTimer_ + b.timeIncrease_,
                  !.stateChanged_ = Decay(o.stateChanged_)]

\* the virtual call machines_[i].second->setupTurn(start)
setupTurn(u, o, time) ==
    IF u \in SMUnits THEN SMSetupTurn(o, time) ELSE TimedSetupTurn(o, time)

\* a state(newState) without the early return for an equal state
SetStateAlways(o, newState) ==
    [o EXCEPT !.state_ = newState, !.stateChanged_ = "THIS_TICK", !.stateTimer_ = 0]

\* StateMachine::state(State newState)
SetState(o, newState) ==
    IF o.state_ = newState THEN o
    ELSE [o EXCEPT !.state_ = newState,
                   !.stateChanged_ = "THIS_TICK",
                   !.stateTimer_ = 0]

\* StateMachine::timeInState
timeInState(o) == o.stateTimer_

\* StateMachine::afterStateChange
afterStateChange(o) == o.stateChanged_ = "PREVIOUS_TICK"

\* --------------------------------------------------------------------- Timer
\* Timer::Timer(): parent_(nullptr); since_ has no initializer and is not
\* read while parent_ is null
DefaultTimer == [since_ |-> 0, parent_ |-> NullUnit]

\* a makeTimer that does not take the owner's frozen time
makeTimerFromZero(o, u) == [since_ |-> 0, parent_ |-> u]

\* TimedObject::makeTimer of the unit u with the fields o
makeTimer(o, u) == [since_ |-> o.timeOfLastFreeze_, parent_ |-> u]

\* Timer::deactivate
deactivate(tm) == [tm EXCEPT !.parent_ = NullUnit]

\* Timer::active
active(tm) == tm.parent_ # NullUnit

\* Timer::time, objs the objects parent_ may point to
time(tm, objs) ==
    IF tm.parent_ = NullUnit THEN 0
    ELSE objs[tm.parent_].timeOfLastFreeze_ - tm.since_

\* what a tick body does with the unit's Timer member
TimerOp(o, u, op) ==
    IF op = "make" THEN [o EXCEPT !.timer = makeTimer(o, u)]
    ELSE IF op = "deactivate" THEN [o EXCEPT !.timer = deactivate(@)]
    ELSE o

\* ---------------------------------------------------------------- the units
\* A unit as its constructor leaves it.  timeOfLastFreeze_ and timeIncrease_
\* have no initializer.  A plain unit is created as the heater example's
\* controller is, by std::make_shared<T>() of a class without a
\* user-provided constructor: it is value-initialized and the fields are 0.
\* The StateMachine has a user-provided constructor, as the example's
\* programmer has, and so has the unit with a Timer, as the test's
\* AutomatonOne has:
\* its timeOfLastFreeze_ is indeterminate until the first setupTurn (fresh
\* records that; the value is drawn when setupTurn reads it), and its
\* constructor calls state(STARTING), after which state_ is STARTING
\* whatever it held.  timeIncrease_ is assigned by setupTurn before any tick
\* body can read it.
NewUnit(u) ==
    [timeOfLastFreeze_ |-> 0, timeIncrease_ |-> 0, stateTimer_ |-> 0,
     stateChanged_ |-> "THIS_TICK", state_ |-> 0,
     fresh |-> (u \in SMUnits \cup TimerUnits), timer |-> DefaultTimer]

\* the values an indeterminate timeOfLastFreeze_ may be read as
Garbage(o) == IF o.fresh THEN 0 .. 1 ELSE {o.timeOfLastFreeze_}

\* the unit as setupTurn finds it when it reads timeOfLastFreeze_ as g
ReadAs(o, g) == [o EXCEPT !.timeOfLastFreeze_ = g, !.fresh = FALSE]

\* The tick body of a unit.  A plain unit writes the input it was given to
\* its own output field (as the controller computes its output from the
\* input); a StateMachine unit moves to state s with state(s), where s may
\* be its current state, and writes its state (as the test's automaton
\* writes out.value[id_] = status_); a unit with a Timer makes a timer,
\* deactivates its timer or only reads it (as the test's automaton does).
UnitTickObj(u, o, s) ==
    IF u \in SMUnits THEN SetState(o, s)
    ELSE IF u \in TimerUnits THEN TimerOp(o, u, s)
    ELSE o

UnitTickOut(u, o, in, out) ==
    [out EXCEPT ![u] = IF u \in SMUnits THEN o.state_ ELSE in]

\* ------------------------------------------------------------- the registry
\* std::make_pair(period / period_, added); stamp is the entry's
\* registration number (history: the registry never shrinks, see
\* removeTimedObject, so the number of entries counts the registrations)
MakeEntry(period, added, n) ==
    [div |-> period \div BasePeriod, unit |-> added, stamp |-> n]

\* a registry that puts a new entry in front of the older ones
PushFront(m, e) == << e >> \o m

\* machines_.push_back(...)
PushBack(m, e) == Append(m, e)

\* std::find_if: the first position at or after i whose unit is removed,
\* Len(m) + 1 when there is none
RECURSIVE FindUnit(_, _, _)
FindUnit(m, removed, i) ==
    IF i > Len(m) THEN i
    ELSE IF m[i].unit = removed THEN i
    ELSE FindUnit(m, removed, i + 1)

\* the loop of the removal algorithm: every entry at i.. that does not match
\* is move-assigned to position w; a moved-from pair keeps its int and its
\* shared_ptr is left empty
RECURSIVE RemoveShift(_, _, _, _)
RemoveShift(m, removed, w, i) ==
    IF i > Len(m) THEN m
    ELSE IF m[i].unit = removed THEN RemoveShift(m, removed, w, i + 1)
    ELSE RemoveShift([m EXCEPT ![w] = m[i], ![i] = [m[i] EXCEPT !.unit = NullUnit]],
                     removed, w + 1, i + 1)

\* std::remove(machines_.begin(), machines_.end(), <predicate>) with its
\* result discarded: the entries are shifted, the vector is not erased
RemoveAlgorithm(m, removed) ==
    LET first == FindUnit(m, removed, 1)
    IN  IF first > Len(m) THEN m ELSE RemoveShift(m, removed, first, first + 1)

\* ------------------------------------------------------- the driving threads
\* a LoopingThread that has not been constructed
NoThread ==
    [pc |-> "none", i |-> 0, input |-> 0, output |-> [u \in Units |-> 0],
     start |-> 0, t0 |-> 0, bp |-> FALSE, log |-> << >>, seen |-> {},
     stale |-> FALSE, cur |-> NullUnit, myK |-> -1, trig |-> -1,
     held |-> {}]

\* the LoopingThread objects constructed so far
Created == {t \in Loops : thr[t].pc # "none"}

\* a constructor that leaves the scheduler at pause depth 2
ConstructedDeeper(m) ==
    /\ machines_ = m
    /\ input_ = 0
    /\ output_ = [u \in Units |-> 0]
    /\ tickOrder_ = 0
    /\ paused_ = 2
    /\ inputMutex_ = "free"
    /\ outputMutex_ = "free"
    /\ inputTrigger_ = FALSE
    /\ outputTrigger_ = FALSE
    /\ loop_ = 0
    /\ thr = [t \in Loops |-> NoThread]
    /\ unit = [u \in Units |-> NewUnit(u)]
    /\ now = 0
    /\ crashed = FALSE
    /\ hist = [u \in Units |-> [k |-> -1, fz |-> 0, tm |-> 0, on |-> FALSE,
                               lf |-> -1, pf |-> -1]]

\* the scheduler as its constructor leaves it, with the registry m
Constructed(m) ==
    /\ machines_ = m
    /\ input_ = 0
    /\ output_ = [u \in Units |-> 0]
    /\ tickOrder_ = 0
    /\ paused_ = 1
    /\ inputMutex_ = "free"
    /\ outputMutex_ = "free"
    /\ inputTrigger_ = FALSE
    /\ outputTrigger_ = FALSE
    /\ loop_ = 0
    /\ thr = [t \in Loops |-> NoThread]
    /\ unit = [u \in Units |-> NewUnit(u)]
    /\ now = 0
    /\ crashed = FALSE
    /\ hist = [u \in Units |-> [k |-> -1, fz |-> 0, tm |-> 0, on |-> FALSE,
                               lf |-> -1, pf |-> -1]]

Init == Constructed(<< >>)

\* ------------------------------------------------------ the caller's thread
\* StateMachineManager::addTimedObject, called while paused (its documented
\* precondition)
AddTimedObject(period, added) ==
    /\ ~crashed
    /\ paused_ > 0
    /\ Len(machines_) < MaxReg
    /\ machines_' = PushBack(machines_, MakeEntry(period, added, Len(machines_) + 1))
    /\ UNCHANGED << input_, output_, tickOrder_, paused_, inputMutex_, outputMutex_,
                    inputTrigger_, outputTrigger_, loop_, thr, unit, now, crashed, hist >>

\* StateMachineManager::removeTimedObject, called while paused
RemoveTimedObject(removed) ==
    /\ ~crashed
    /\ paused_ > 0
    /\ \E j \in 1 .. Len(machines_) : machines_[j].unit = removed
    /\ machines_' = RemoveAlgorithm(machines_, removed)
    /\ UNCHANGED << input_, output_, tickOrder_, paused_, inputMutex_, outputMutex_,
                    inputTrigger_, outputTrigger_, loop_, thr, unit, now, crashed, hist >>

\* std::unique_ptr::release: the pointer gives up the object without
\* destroying it
UniqueRelease(l) == 0

\* StateMachineManager::pause
Pause ==
    /\ ~crashed
    /\ paused_ < MaxDepth
    /\ IF paused_ = 0
       THEN /\ loop_' = UniqueRelease(loop_)
            /\ paused_' = 1
       ELSE /\ paused_' = paused_ + 1
            /\ loop_' = loop_
    /\ UNCHANGED << machines_, input_, output_, tickOrder_, inputMutex_, outputMutex_,
                    inputTrigger_, outputTrigger_, thr, unit, now, crashed, hist >>

\* StateMachineManager::unpause; the LoopingThread it constructs starts to
\* wait for its first period
Unpause ==
    /\ ~crashed
    /\ paused_ > -MaxUnder
    /\ IF paused_ = 1
       THEN /\ Created # Loops
            /\ LET t == CHOOSE x \in Loops : x \notin Created /\ \A y \in Loops \ Created : x <= y
               IN  /\ loop_' = t
                   /\ thr' = [thr EXCEPT ![t] = [NoThread EXCEPT !.pc = "wait"]]
            /\ paused_' = 0
       ELSE /\ paused_' = paused_ - 1
            /\ UNCHANGED << loop_, thr >>
    /\ UNCHANGED << machines_, input_, output_, tickOrder_, inputMutex_, outputMutex_,
                    inputTrigger_, outputTrigger_, unit, now, crashed, hist >>

\* a lock that is taken without waiting for the mutex
LockableAlways(mx) == TRUE

\* the constructor of std::unique_lock returns only once the mutex, in the
\* state mx, is free
Lockable(mx) == mx = "free"

\* StateMachineManager::input: the caller takes the input mutex and holds it
\* in the handle
InputAcquire ==
    /\ ~crashed
    /\ Lockable(inputMutex_)
    /\ inputMutex_' = "caller"
    /\ UNCHANGED << machines_, input_, output_, tickOrder_, paused_, outputMutex_,
                    inputTrigger_, outputTrigger_, loop_, thr, unit, now, crashed, hist >>

\* ProtectedReturn::operator-> on the input handle: in->value = v
InputWrite(v) ==
    /\ ~crashed
    /\ inputMutex_ = "caller"
    /\ v # input_
    /\ input_' = v
    /\ thr' = [x \in Loops |-> [thr[x] EXCEPT !.stale = TRUE]]
    /\ UNCHANGED << machines_, output_, tickOrder_, paused_, inputMutex_, outputMutex_,
                    inputTrigger_, outputTrigger_, loop_, unit, now, crashed, hist >>

\* ProtectedReturn::~ProtectedReturn of the input handle
InputRelease ==
    /\ ~crashed
    /\ inputMutex_ = "caller"
    /\ inputMutex_' = "free"
    /\ UNCHANGED << machines_, input_, output_, tickOrder_, paused_, outputMutex_,
                    inputTrigger_, outputTrigger_, loop_, thr, unit, now, crashed, hist >>

\* StateMachineManager::output
OutputAcquire ==
    /\ ~crashed
    /\ Lockable(outputMutex_)
    /\ outputMutex_' = "caller"
    /\ UNCHANGED << machines_, input_, output_, tickOrder_, paused_, inputMutex_,
                    inputTrigger_, outputTrigger_, loop_, thr, unit, now, crashed, hist >>

\* ProtectedReturn::~ProtectedReturn of the output handle
OutputRelease ==
    /\ ~crashed
    /\ outputMutex_ = "caller"
    /\ outputMutex_' = "free"
    /\ UNCHANGED << machines_, input_, output_, tickOrder_, paused_, inputMutex_,
                    inputTrigger_, outputTrigger_, loop_, thr, unit, now, crashed, hist >>

\* StateMachineManager::setInputTrigger, called while paused
SetInputTrigger ==
    /\ ~crashed
    /\ paused_ > 0
    /\ ~inputTrigger_
    /\ inputTrigger_' = TRUE
    /\ UNCHANGED << machines_, input_, output_, tickOrder_, paused_, inputMutex_,
                    outputMutex_, outputTrigger_, loop_, thr, unit, now, crashed, hist >>

\* StateMachineManager::setOutputTrigger, called while paused
SetOutputTrigger ==
    /\ ~crashed
    /\ paused_ > 0
    /\ ~outputTrigger_
    /\ outputTrigger_' = TRUE
    /\ UNCHANGED << machines_, input_, output_, tickOrder_, paused_, inputMutex_,
                    outputMutex_, inputTrigger_, loop_, thr, unit, now, crashed, hist >>

\* ------------------------------------------------------- StateMachineManager::tick
\* the statement of tick() that follows the output copy
AfterCopyOut == IF inputTrigger_ THEN "inTrig" ELSE "lockIn"

\* the statement of tick() that follows the output write-back
AfterWriteOut == IF outputTrigger_ THEN "outTrig" ELSE "wait"

\* the value tick() takes as the baseline of its local output
Baseline == output_

\* The periodic-invocation primitive (LoopingThread): from its construction
\* on, and for as long as the object exists, its thread waits for the period
\* to elapse and then invokes the callback.  No LoopingThread is ever
\* destroyed: unpause() assigns to an empty loop_, and pause() empties loop_
\* with release().
Fires(t) == thr[t].pc = "wait"

\* The LoopingThread's period has elapsed: its thread calls tick(), which
\* begins with  Output output = output_;
\* History: t0 is the tick counter and bp whether the scheduler is paused
\* as this global tick begins.
LoopFire(t) ==
    /\ ~crashed
    /\ Fires(t)
    /\ tickOrder_ < MaxTicks
    /\ thr' = [thr EXCEPT ![t] = [NoThread EXCEPT !.pc = AfterCopyOut,
                                                  !.output = Baseline,
                                                  !.t0 = tickOrder_,
                                                  !.bp = (paused_ > 0)]]
    /\ UNCHANGED << machines_, input_, output_, tickOrder_, paused_, inputMutex_,
                    outputMutex_, inputTrigger_, outputTrigger_, loop_, unit, now,
                    crashed, hist >>

\* if(inputTrigger_) inputTrigger_(input_): the trigger stores a value of
\* its choice in the shared input.  History: trig keeps that value until the
\* tick copies the shared input.
InTrig(t) ==
    /\ ~crashed
    /\ thr[t].pc = "inTrig"
    /\ \E v \in Values :
         /\ input_' = v
         /\ thr' = [x \in Loops |->
                      IF x = t THEN [thr[x] EXCEPT !.pc = "lockIn", !.trig = v]
                      ELSE [thr[x] EXCEPT !.stale = (thr[x].stale \/ v # input_)]]
    /\ UNCHANGED << machines_, output_, tickOrder_, paused_, inputMutex_,
                    outputMutex_, inputTrigger_, outputTrigger_, loop_, unit, now,
                    crashed, hist >>

\* a lock whose scope does not end: the mutex stays as it is
ScopeKept(mx) == mx

\* the closing brace of a block that declared a std::unique_lock on the
\* mutex with the state mx: the lock's destructor unlocks the mutex
ScopeEnd(mx) == "free"

\* the mutexes thread t holds once it has left a lock's scope that left the
\* mutex name in the state mx (history)
HeldAfter(t, name, mx) ==
    IF mx = "free" THEN thr[t].held \ {name} ELSE thr[t].held

\* std::unique_lock<std::mutex> lock(inputMutex_);
LockIn(t) ==
    /\ ~crashed
    /\ thr[t].pc = "lockIn"
    /\ Lockable(inputMutex_)
    /\ inputMutex_' = "loop"
    /\ thr' = [thr EXCEPT ![t].pc = "copyIn", ![t].held = @ \cup {"in"}]
    /\ UNCHANGED << machines_, input_, output_, tickOrder_, paused_, outputMutex_,
                    inputTrigger_, outputTrigger_, loop_, unit, now, crashed, hist >>

\* the value tick() copies into its local input
Snapshot == input_

\* input = input_; the end of the lock's scope; and
\* long long start = system_clock::now() in ms: the clock does not go back
\* and advances by at most 1 between two readings
CopyIn(t) ==
    /\ ~crashed
    /\ thr[t].pc = "copyIn"
    /\ inputMutex_' = ScopeEnd(inputMutex_)
    /\ \E c \in now .. Min(now + 1, MaxTime) :
         /\ now' = c
         /\ thr' = [thr EXCEPT ![t].input = Snapshot, ![t].stale = FALSE,
                               ![t].start = c, ![t].i = 1, ![t].pc = "loop",
                               ![t].trig = -1,
                               ![t].held = HeldAfter(t, "in", ScopeEnd(inputMutex_))]
    /\ UNCHANGED << machines_, input_, output_, tickOrder_, paused_, outputMutex_,
                    inputTrigger_, outputTrigger_, loop_, unit, crashed, hist >>

\* What tickOrder_ % machines_[i].first == 0 can do.  With a divisor of 0 the
\* behaviour is undefined: the division traps (x86), or yields quotient 0 and
\* so the remainder tickOrder_ (ARM).
DueOutcomes(tc, d) ==
    IF d # 0 THEN {IF tc % d = 0 THEN "fire" ELSE "skip"}
    ELSE {"fault", IF tc = 0 THEN "fire" ELSE "skip"}

\* i++ of the loop over machines_
NextIndex(i) == i + 1

\* history: the number of firings since the unit's last transition, 2 for
\* two or more, -1 when no transition was made in a firing
NextK(k) == IF k < 0 THEN k ELSE Min(k + 1, 2)

\* the entry examined by a step of the loop, as the history keeps it
LogEntry(e, o) ==
    [stamp |-> e.stamp, div |-> e.div, unit |-> e.unit, fired |-> (o = "fire")]

\* i < machines_.size() fails: the loop ends, and  tickOrder_++;
LoopExit(t) ==
    /\ ~crashed
    /\ thr[t].pc = "loop"
    /\ thr[t].i > Len(machines_)
    /\ tickOrder_' = tickOrder_ + 1
    /\ thr' = [thr EXCEPT ![t].pc = "lockOut"]
    /\ UNCHANGED << machines_, input_, output_, paused_, inputMutex_, outputMutex_,
                    inputTrigger_, outputTrigger_, loop_, unit, now, crashed, hist >>

\* if(tickOrder_ % machines_[i].first == 0) fails (or traps): the entry is
\* passed over
LoopSkip(t) ==
    /\ ~crashed
    /\ thr[t].pc = "loop"
    /\ thr[t].i <= Len(machines_)
    /\ LET e == machines_[thr[t].i]
       IN  \E o \in DueOutcomes(tickOrder_, e.div) \ {"fire"} :
             IF o = "fault"
             THEN /\ crashed' = TRUE
                  /\ thr' = thr
             ELSE /\ crashed' = crashed
                  /\ thr' = [thr EXCEPT ![t].log = Append(@, LogEntry(e, o)),
                                        ![t].i = NextIndex(@)]
    /\ UNCHANGED << machines_, input_, output_, tickOrder_, paused_, inputMutex_,
                    outputMutex_, inputTrigger_, outputTrigger_, loop_, unit, now, hist >>

\* if(tickOrder_ % machines_[i].first == 0) holds, and
\* machines_[i].second->setupTurn(start); a call through an empty pointer
\* is a fault.  History: lf is the frozen time of the unit's latest firing
\* and pf that of the firing before it, -1 when there is none.
Setup(t) ==
    /\ ~crashed
    /\ thr[t].pc = "loop"
    /\ thr[t].i <= Len(machines_)
    /\ LET e == machines_[thr[t].i]
           u == e.unit
       IN  /\ "fire" \in DueOutcomes(tickOrder_, e.div)
           /\ IF u = NullUnit
              THEN /\ crashed' = TRUE
                   /\ UNCHANGED << thr, unit, hist >>
              ELSE /\ crashed' = crashed
                   /\ \E g \in Garbage(unit[u]) :
                        unit' = [unit EXCEPT ![u] = setupTurn(u, ReadAs(@, g), thr[t].start)]
                   /\ hist' = [hist EXCEPT ![u].k = NextK(@),
                                           ![u].pf = hist[u].lf,
                                           ![u].lf = thr[t].start]
                   /\ thr' = [thr EXCEPT ![t].log = Append(@, LogEntry(e, "fire")),
                                         ![t].pc = "tick", ![t].cur = u,
                                         ![t].myK = NextK(hist[u].k)]
    /\ UNCHANGED << machines_, input_, output_, tickOrder_, paused_, inputMutex_,
                    outputMutex_, inputTrigger_, outputTrigger_, loop_, now >>

\* the states a unit's tick body may pass to state()
Targets(u) ==
    IF u \in SMUnits THEN States
    ELSE IF u \in TimerUnits THEN TimerOps
    ELSE {0}

\* a tick that hands the shared input to the units instead of its copy
TickInputShared(t) == input_

\* the input argument of machines_[i].second->tick(input, output)
TickInput(t) == thr[t].input

\* machines_[i].second->tick(input, output).  History: seen collects the
\* inputs handed to the units of this global tick; a transition starts a new
\* count of firings and records the frozen time of this firing; tm is the
\* owner's frozen time at the last makeTimer and on whether a timer has been
\* made and not deactivated since.
Tick(t) ==
    /\ ~crashed
    /\ thr[t].pc = "tick"
    /\ LET u == machines_[thr[t].i].unit
       IN  IF u = NullUnit
           THEN /\ crashed' = TRUE
                /\ UNCHANGED << thr, unit, hist >>
           ELSE \E s \in Targets(u) :
                  LET o == UnitTickObj(u, unit[u], s)
                      changed == o.state_ # unit[u].state_
                  IN  /\ crashed' = crashed
                      /\ unit' = [unit EXCEPT ![u] = o]
                      /\ hist' = IF changed
                                 THEN [hist EXCEPT ![u].k = 0, ![u].fz = thr[t].start]
                                 ELSE IF u \in TimerUnits /\ s = "make"
                                 THEN [hist EXCEPT ![u].tm = frameTime(unit[u]),
                                                   ![u].on = TRUE]
                                 ELSE IF u \in TimerUnits /\ s = "deactivate"
                                 THEN [hist EXCEPT ![u].on = FALSE]
                                 ELSE hist
                      /\ thr' = [x \in Loops |->
                                   IF x = t
                                   THEN [thr[x] EXCEPT
                                           !.output = UnitTickOut(u, o, TickInput(t), @),
                                           !.seen = @ \cup {TickInput(t)},
                                           !.i = NextIndex(@), !.pc = "loop",
                                           !.cur = NullUnit, !.myK = -1]
                                   ELSE IF changed /\ thr[x].cur = u
                                        THEN [thr[x] EXCEPT !.myK = -1]
                                        ELSE thr[x]]
    /\ UNCHANGED << machines_, input_, output_, tickOrder_, paused_, inputMutex_,
                    outputMutex_, inputTrigger_, outputTrigger_, loop_, now >>

\* std::unique_lock<std::mutex> lock(outputMutex_);
LockOut(t) ==
    /\ ~crashed
    /\ thr[t].pc = "lockOut"
    /\ Lockable(outputMutex_)
    /\ outputMutex_' = "loop"
    /\ thr' = [thr EXCEPT ![t].pc = "writeOut", ![t].held = @ \cup {"out"}]
    /\ UNCHANGED << machines_, input_, output_, tickOrder_, paused_, inputMutex_,
                    inputTrigger_, outputTrigger_, loop_, unit, now, crashed, hist >>

\* a write-back that leaves out what the last registered unit wrote
WrittenPartly(t) ==
    [u \in Units |->
        IF machines_ # << >> /\ u = machines_[Len(machines_)].unit
        THEN output_[u] ELSE thr[t].output[u]]

\* the right-hand side of  output_ = output
WrittenBack(t) == thr[t].output

\* output_ = output; and the end of the lock's scope.  Without an output
\* trigger tick() returns and the thread waits for the next period.
WriteOut(t) ==
    /\ ~crashed
    /\ thr[t].pc = "writeOut"
    /\ output_' = WrittenBack(t)
    /\ outputMutex_' = ScopeEnd(outputMutex_)
    /\ thr' = [thr EXCEPT ![t] = IF AfterWriteOut = "wait"
                                 THEN [NoThread EXCEPT !.pc = "wait"]
                                 ELSE [@ EXCEPT !.pc = AfterWriteOut,
                                                !.held = HeldAfter(t, "out",
                                                             ScopeEnd(outputMutex_))]]
    /\ UNCHANGED << machines_, input_, tickOrder_, paused_, inputMutex_,
                    inputTrigger_, outputTrigger_, loop_, unit, now, crashed, hist >>

\* if(outputTrigger_) outputTrigger_(output_); tick() returns and the thread
\* waits for the next period
OutTrig(t) ==
    /\ ~crashed
    /\ thr[t].pc = "outTrig"
    /\ thr' = [thr EXCEPT ![t] = [NoThread EXCEPT !.pc = "wait"]]
    /\ UNCHANGED << machines_, input_, output_, tickOrder_, paused_, inputMutex_,
                    outputMutex_, inputTrigger_, outputTrigger_, loop_, unit, now,
                    crashed, hist >>

\* the steps of tick() that every global tick takes
Frame ==
    \/ \E t \in Loops : LoopFire(t)
    \/ \E t \in Loops : LockIn(t)
    \/ \E t \in Loops : CopyIn(t)
    \/ \E t \in Loops : LoopExit(t)
    \/ \E t \in Loops : LockOut(t)
    \/ \E t \in Loops : WriteOut(t)

\* the firing of a unit
Fire ==
    \/ \E t \in Loops : Setup(t)
    \/ \E t \in Loops : Tick(t)

\* the triggers
Hooks ==
    \/ \E t \in Loops : InTrig(t)
    \/ \E t \in Loops : OutTrig(t)

\* ------------------------------------------------------------ specifications
\* The whole program: every operation of the caller at any time its
\* documented precondition allows, and every driving thread.
Next ==
    \/ \E p \in Periods, u \in Units : AddTimedObject(p, u)
    \/ \E u \in Units : RemoveTimedObject(u)
    \/ Pause
    \/ Unpause
    \/ InputAcquire
    \/ \E v \in Values : InputWrite(v)
    \/ InputRelease
    \/ OutputAcquire
    \/ OutputRelease
    \/ SetInputTrigger
    \/ SetOutputTrigger
    \/ Frame
    \/ \E t \in Loops : LoopSkip(t)
    \/ Fire
    \/ Hooks

Spec == Init /\ [][Next]_vars

\* The callers of the examples set the scheduler up before the first
\* unpause(): no LoopingThread has been constructed yet.
SetupPhase == Created = {}

\* Pausing: a caller that only pauses and unpauses a scheduler without units.
NextPause ==
    \/ Pause
    \/ Unpause
    \/ Frame

SpecPause == Init /\ [][NextPause]_vars

\* Registration: a caller that registers plain units during setup,
\* unpauses, and then pauses and unpauses without nesting.  (A program that
\* calls removeTimedObject does not build from the source as written, see
\* SpecRem.)
NextReg ==
    \/ \E p \in Periods, u \in PlainUnits : SetupPhase /\ AddTimedObject(p, u)
    \/ paused_ = 0 /\ Pause
    \/ paused_ = 1 /\ Unpause
    \/ Frame
    \/ \E t \in Loops : LoopSkip(t)
    \/ Fire

SpecReg == Init /\ [][NextReg]_vars

\* Removal: a caller that registers and removes plain units during setup
\* and then unpauses.  std::remove is handed a predicate where it takes a
\* value, so the member function does not compile once it is called; the
\* scenario reads the call as the removal algorithm that takes the predicate
\* (std::remove_if), with the result discarded as the source discards it.
NextRem ==
    \/ \E p \in Periods, u \in PlainUnits : SetupPhase /\ AddTimedObject(p, u)
    \/ \E u \in PlainUnits : SetupPhase /\ RemoveTimedObject(u)
    \/ paused_ = 1 /\ Unpause
    \/ Frame
    \/ \E t \in Loops : LoopSkip(t)
    \/ Fire

SpecRem == Init /\ [][NextRem]_vars

\* Input exchange: the scheduler after addTimedObject(100, unit 1) and
\* addTimedObject(200, unit 2); the caller may set the input trigger during
\* setup, unpauses, pauses and unpauses without nesting, and writes the
\* shared input through input() handles.
InitIn ==
    Constructed(PushBack(PushBack(<< >>, MakeEntry(100, 1, 1)), MakeEntry(200, 2, 2)))

NextIn ==
    \/ SetupPhase /\ SetInputTrigger
    \/ paused_ = 0 /\ Pause
    \/ paused_ = 1 /\ Unpause
    \/ InputAcquire
    \/ \E v \in Values : InputWrite(v)
    \/ InputRelease
    \/ Frame
    \/ \E t \in Loops : LoopSkip(t)
    \/ Fire
    \/ \E t \in Loops : InTrig(t)

SpecIn == InitIn /\ [][NextIn]_vars

\* State tracking: the scheduler after addTimedObject(100, unit 3); the
\* caller pauses and unpauses.
InitSM ==
    Constructed(PushBack(<< >>, MakeEntry(100, 3, 1)))

NextSM ==
    \/ Pause
    \/ Unpause
    \/ Frame
    \/ Fire

SpecSM == InitSM /\ [][NextSM]_vars

\* Hooks: the scheduler of InitIn; the caller may set either trigger during
\* setup, unpauses once, and takes and releases input() and output()
\* handles, writing the shared input through the input() handle.
NextHooks ==
    \/ SetupPhase /\ SetInputTrigger
    \/ SetupPhase /\ SetOutputTrigger
    \/ paused_ = 1 /\ Unpause
    \/ InputAcquire
    \/ \E v \in Values : InputWrite(v)
    \/ InputRelease
    \/ OutputAcquire
    \/ OutputRelease
    \/ Frame
    \/ \E t \in Loops : LoopSkip(t)
    \/ Fire
    \/ Hooks

SpecHooks == InitIn /\ [][NextHooks]_vars

\* The scheduling of the Hooks scenario.  A driving thread that can take its
\* next step takes it (the unit tick bodies and the triggers return).  A
\* caller does not keep a handle for ever.  A thread blocked in the
\* constructor of a std::unique_lock obtains the mutex if the mutex is free
\* again and again: the callers of the examples sleep between two handles,
\* so the mutex stays free for most of every period.
FairTick ==
    \A t \in Loops :
        /\ WF_vars(InTrig(t))
        /\ SF_vars(LockIn(t))
        /\ WF_vars(CopyIn(t))
        /\ WF_vars(LoopSkip(t))
        /\ WF_vars(Setup(t))
        /\ WF_vars(Tick(t))
        /\ WF_vars(LoopExit(t))
        /\ SF_vars(LockOut(t))
        /\ WF_vars(WriteOut(t))
        /\ WF_vars(OutTrig(t))

FairCaller == WF_vars(InputRelease) /\ WF_vars(OutputRelease)

SpecLive == InitIn /\ [][NextHooks]_vars /\ FairTick /\ FairCaller

\* Timers: the scheduler after addTimedObject(100, unit 4); the caller
\* pauses and unpauses.
InitTimer ==
    Constructed(PushBack(<< >>, MakeEntry(100, 4, 1)))

NextTimer ==
    \/ Pause
    \/ Unpause
    \/ Frame
    \/ Fire

SpecTimer == InitTimer /\ [][NextTimer]_vars

\* ------------------------------------------------------------------- claims
\* whether thread t is inside tick()
InTick(t) == thr[t].pc \notin {"none", "wait"}

\* the entries of thread t's log that fired
FiredAt(t) == {j \in 1 .. Len(thr[t].log) : thr[t].log[j].fired}

\* C1: a unit with rate divisor d is fired in the global tick whose
\* tick-counter value is t if and only if t % d = 0: every entry a global
\* tick has examined was fired exactly when the counter value the tick began
\* with is a multiple of the entry's divisor.
C1_FiresIffDue ==
    \A t \in Loops : \A j \in 1 .. Len(thr[t].log) :
        LET e == thr[t].log[j]
        IN  e.div > 0 => (e.fired <=> (thr[t].t0 % e.div = 0))

\* C2: within a global tick the units fire in the order of their
\* registration, one after the other: the entries a tick has fired so far
\* have increasing registration numbers, and only the last of them can still
\* be inside its tick call.
C2_RegistrationOrder ==
    \A t \in Loops :
        /\ \A j, k \in FiredAt(t) : j < k => thr[t].log[j].stamp < thr[t].log[k].stamp
        /\ thr[t].pc = "tick" =>
              /\ Len(thr[t].log) \in FiredAt(t)
              /\ thr[t].log[Len(thr[t].log)].unit = thr[t].cur

\* C2's case: a global tick has fired two different units
C2_Witness ==
    \E t \in Loops : \E j, k \in FiredAt(t) :
        /\ j < k
        /\ thr[t].log[j].unit # thr[t].log[k].unit
        /\ thr[t].pc = "tick"

\* C3: once pause() has stopped a running scheduler, no new global tick
\* begins until unpause() brings it back to running: no tick begins in a
\* step that starts and ends with a positive pause depth.
C3_PauseStopsFiring ==
    [][(paused_ > 0 /\ paused_' > 0) =>
          \A t \in Loops : ~(thr[t].pc = "wait" /\ thr'[t].pc # "wait")]_vars

\* C4: pausing is reentrant, after n pause() and fewer unpause() calls the
\* scheduler is still paused and no tick is observed: no global tick that is
\* in progress began at a positive pause depth.
C4_NoTickWhileDepthPositive ==
    \A t \in Loops : InTick(t) => ~thr[t].bp

\* C5: while the caller holds an input() handle no step of a driving thread
\* reads or writes the shared input (the input trigger, the locked copy), and
\* while it holds an output() handle none reads or writes the shared output
\* (the initial copy, the write-back, the output trigger).
C5_HandleExcludesTick ==
    [][/\ (inputMutex_ = "caller" /\ inputMutex_' = "caller") =>
             \A t \in Loops : ~(thr[t].pc \in {"inTrig", "copyIn"} /\ thr'[t].pc # thr[t].pc)
       /\ (outputMutex_ = "caller" /\ outputMutex_' = "caller") =>
             \A t \in Loops : ~(thr[t].pc \in {"wait", "writeOut", "outTrig"}
                                /\ thr'[t].pc # thr[t].pc)]_vars

\* the registry m without the entries of unit u
Without(m, u) == SelectSeq(m, LAMBDA e : e.unit # u)

\* C6: removeTimedObject(u) leaves a registry that holds no entry of u and
\* holds the other entries with their divisors, in their order.
C6_RemoveRemoves ==
    [][\A u \in Units : RemoveTimedObject(u) => machines_' = Without(machines_, u)]_vars

\* whether period is an exact positive multiple of the base period
ExactMultiple(period) == period > 0 /\ period % BasePeriod = 0

\* C7: addTimedObject with a period that is not an exact positive multiple
\* of the base period is rejected and leaves the registry unchanged.
C7_RejectsBadPeriod ==
    [][\A p \in Periods, u \in Units :
          (AddTimedObject(p, u) /\ ~ExactMultiple(p)) => machines_' = machines_]_vars

\* whether thread t has taken its input snapshot in the tick it is in
HasSnapshot(t) == thr[t].pc \in {"loop", "tick", "lockOut", "writeOut", "outTrig"}

\* C8: every unit fired in a global tick receives the snapshot of the shared
\* input that tick took under the input mutex, whatever is written to the
\* shared input afterwards; and the snapshot is the shared input as the
\* writes made before it left it (no write since the snapshot: the two are
\* equal), so a write made after one tick's snapshot reaches the units of
\* the next.
C8_SameSnapshot ==
    \A t \in Loops :
        /\ thr[t].seen \subseteq {thr[t].input}
        /\ (HasSnapshot(t) /\ ~thr[t].stale) => thr[t].input = input_

\* C8's case: two units of one global tick have been handed the snapshot
\* after the caller wrote another value to the shared input through a handle
C8_Witness ==
    \E t \in Loops :
        /\ Cardinality(FiredAt(t)) = 2
        /\ thr[t].pc = "loop"
        /\ thr[t].stale
        /\ thr[t].input # input_
        /\ thr[t].seen = {thr[t].input}
        /\ ~inputTrigger_

\* C9: after state(Y), Y # state(), in the unit's firing n and no later
\* transition, afterStateChange() is false for the rest of firing n, true
\* throughout firing n+1 and false in firing n+2 and later.
C9_AfterStateChange ==
    /\ \A u \in SMUnits : hist[u].k = 0 => ~afterStateChange(unit[u])
    /\ \A t \in Loops :
          (thr[t].pc = "tick" /\ thr[t].cur \in SMUnits) =>
              /\ thr[t].myK = 1 => afterStateChange(unit[thr[t].cur])
              /\ thr[t].myK = 2 => ~afterStateChange(unit[thr[t].cur])

\* C10: timeInState() is 0 right after a transition, and in a later firing
\* before the next transition it is the frozen time of that firing minus the
\* frozen time of the firing in which the transition happened.
C10_TimeInState ==
    /\ \A u \in SMUnits : hist[u].k = 0 => timeInState(unit[u]) = 0
    /\ \A t \in Loops :
          (thr[t].pc = "tick" /\ thr[t].cur \in SMUnits /\ thr[t].myK >= 1) =>
              timeInState(unit[thr[t].cur]) = thr[t].start - hist[thr[t].cur].fz

\* C11: state(X) on a StateMachine whose state is X changes nothing: applied
\* to any unit the program can reach it leaves the state, the time-in-state
\* counter and the transition-recency flag (and the rest of the unit) as
\* they are, so timeInState() and afterStateChange() answer as before.
C11_SameStateNoOp ==
    \A u \in SMUnits :
        LET o == SetState(unit[u], unit[u].state_)
        IN  /\ o = unit[u]
            /\ timeInState(o) = timeInState(unit[u])
            /\ afterStateChange(o) = afterStateChange(unit[u])

\* C11's case: a tick body has called state() with the unit's state in the
\* firing that follows a transition, with time accumulated in the state
C11_Witness ==
    \E t \in Loops : \E u \in SMUnits :
        /\ thr[t].pc = "loop"
        /\ thr[t].log # << >>
        /\ thr[t].log[Len(thr[t].log)].unit = u
        /\ hist[u].k = 1
        /\ timeInState(unit[u]) > 0
        /\ afterStateChange(unit[u])

\* C12: a timer made by makeTimer() when the owner's frozen time is T
\* reports k from time() whenever the owner's frozen time is T + k (0 while
\* it is still T, as in the creating tick) and is active; a
\* default-constructed timer and a timer after deactivate() report 0 and
\* are not active, whatever the owner's frozen time has become.
C12_TimerReports ==
    \A u \in TimerUnits :
        LET tm == unit[u].timer
        IN  IF hist[u].on
            THEN active(tm) /\ time(tm, unit) = frameTime(unit[u]) - hist[u].tm
            ELSE ~active(tm) /\ time(tm, unit) = 0

\* C12's case: a timer made at frozen time 0 is read at frozen time 1
C12_Witness ==
    \E u \in TimerUnits :
        /\ hist[u].on
        /\ hist[u].tm = 0
        /\ frameTime(unit[u]) = 1
        /\ time(unit[u].timer, unit) = 1

\* the order of the statements of tick(): the positions that may follow
\* position p
StepsAfter(p) ==
    CASE p = "none" -> {"wait"}
      [] p = "wait" -> {IF inputTrigger_ THEN "inTrig" ELSE "lockIn"}
      [] p = "inTrig" -> {"lockIn"}
      [] p = "lockIn" -> {"copyIn"}
      [] p = "copyIn" -> {"loop"}
      [] p = "loop" -> {"tick", "lockOut"}
      [] p = "tick" -> {"loop"}
      [] p = "lockOut" -> {"writeOut"}
      [] p = "writeOut" -> {IF outputTrigger_ THEN "outTrig" ELSE "wait"}
      [] p = "outTrig" -> {"wait"}

\* C13: in every global tick the input trigger (if set), the locked input
\* copy, the firing of the due units, the increment of the tick counter, the
\* locked output write-back and the output trigger (if set) happen in this
\* order, each once; the units of the tick see the input as the tick's input
\* trigger left it, and the output trigger sees the output the tick's units
\* produced.
C13_StepOrder ==
    [][\A t \in Loops :
          /\ thr'[t].pc # thr[t].pc => thr'[t].pc \in StepsAfter(thr[t].pc)
          /\ (thr[t].pc = "loop" /\ thr'[t].pc = "lockOut") <=>
                 (tickOrder_' = tickOrder_ + 1 /\ thr'[t] # thr[t])
          /\ (thr[t].pc = "copyIn" /\ thr'[t].pc = "loop" /\ inputTrigger_) =>
                 thr'[t].input = thr[t].trig
          /\ (thr[t].pc = "outTrig" /\ thr'[t].pc = "wait") =>
                 output_ = thr[t].output]_vars

\* no global tick has begun, and the shared output is the initial one
Quiet ==
    /\ tickOrder_ = 0
    /\ output_ = [u \in Units |-> 0]
    /\ \A t \in Loops : ~InTick(t)

\* C14: a newly constructed scheduler is paused at depth 1; as long as no
\* unpause() has started the firing no global tick occurs, the shared output
\* keeps its initial value and the shared input changes only by the
\* caller's own writes; and the one unpause() called at depth 1 starts the
\* periodic firing.
C14_ConstructedPaused ==
    /\ paused_ = 1 /\ Created = {} /\ Quiet
    /\ [][/\ Created' = {} => (Quiet' /\ paused_' >= 1)
          /\ (Created = {} /\ input_' # input_) => inputMutex_ = "caller"
          /\ (Created = {} /\ paused_ = 1 /\ Unpause) =>
                 (paused_' = 0 /\ loop_' \in Created' /\ thr'[loop_'].pc = "wait")]_vars

\* C14's case: after the one unpause() a global tick has changed the
\* shared output
C14_Witness ==
    /\ paused_ = 0
    /\ Cardinality(Created) = 1
    /\ tickOrder_ > 0
    /\ output_ # [u \in Units |-> 0]

\* C15: whatever pause() and unpause() calls were made, at most one driving
\* context exists and two executions of tick() never overlap.
C15_SingleDriver ==
    /\ Cardinality(Created) <= 1
    /\ Cardinality({t \in Loops : InTick(t)}) <= 1

\* C16: a driving thread never holds the input mutex and the output mutex
\* together, and holds neither while it waits for one; so whenever it waits
\* for a mutex, the holder of that mutex (a caller with an input() handle,
\* an output() handle or both, or a tick inside its locked copy) can go on
\* and release it: no deadlock.
C16_NeverBothMutexes ==
    \A t \in Loops :
        /\ thr[t].held # {"in", "out"}
        /\ thr[t].pc \in {"lockIn", "lockOut"} => thr[t].held = {}
        /\ (thr[t].pc = "lockIn" /\ ~ENABLED LockIn(t)) =>
               (ENABLED InputRelease \/ \E x \in Loops : ENABLED CopyIn(x))
        /\ (thr[t].pc = "lockOut" /\ ~ENABLED LockOut(t)) =>
               (ENABLED OutputRelease \/ \E x \in Loops : ENABLED WriteOut(x))

\* C16's case: the caller holds an output() and an input() handle together
\* while a global tick waits for the input mutex
C16_Witness ==
    /\ inputMutex_ = "caller"
    /\ outputMutex_ = "caller"
    /\ \E t \in Loops : thr[t].pc = "lockIn"

C18_OutputWholeTicks ==
    [][/\ (outputMutex_ = "caller" /\ outputMutex_' = "caller") => output_' = output_
       /\ output_' # output_ =>
             \E t \in Loops :
                 /\ thr[t].pc = "writeOut"
                 /\ thr[t].i > Len(machines_)
                 /\ outputMutex_ = "loop"
                 /\ output_' = thr[t].output]_vars

\* C18's case: a caller holds an output() handle on the result of a finished
\* tick while the next tick has fired a unit that left another value in the
\* tick's local output
C18_Witness ==
    \E t \in Loops :
        /\ outputMutex_ = "caller"
        /\ output_ # [u \in Units |-> 0]
        /\ FiredAt(t) # {}
        /\ thr[t].output # output_

\* the units thread t has fired in the global tick it is in
FiredUnits(t) == {thr[t].log[j].unit : j \in FiredAt(t)}

\* C19: the output is one accumulator threaded through a global tick: the
\* tick starts from the shared output, every unit fired changes the tick's
\* output only by what it writes (its own field), the write-back stores the
\* value the last fired unit left, and the tick leaves the shared output
\* unchanged in every field that none of its fired units wrote (all of it
\* when no unit fired).
C19_OutputAccumulator ==
    [][\A t \in Loops :
          /\ (thr[t].pc = "wait" /\ thr'[t].pc # "wait") => thr'[t].output = output_
          /\ (thr[t].pc = "tick" /\ thr'[t].pc = "loop") =>
                 \A u \in Units \ {thr[t].cur} : thr'[t].output[u] = thr[t].output[u]
          /\ (thr[t].pc = "writeOut" /\ thr'[t].pc # "writeOut") =>
                 /\ output_' = thr[t].output
                 /\ \A u \in Units \ FiredUnits(t) : output_'[u] = output_[u]]_vars

\* the divisor of the entry thread t is firing
FiringDiv(t) == thr[t].log[Len(thr[t].log)].div

\* C20: while a unit with a divisor above 1 is in a firing, frameTime() is
\* the one frozen time of the global tick that fires it, and lastPeriod() is
\* that frozen time minus the frozen time of the unit's previous firing,
\* however many global ticks passed the unit over in between.
C20_LastPeriod ==
    \A t \in Loops :
        (thr[t].pc = "tick" /\ FiringDiv(t) > 1) =>
            LET u == thr[t].cur
            IN  /\ frameTime(unit[u]) = thr[t].start
                /\ hist[u].pf >= 0 => lastPeriod(unit[u]) = thr[t].start - hist[u].pf

\* the scheduler owns a LoopingThread: its periodic firing is active
FiringActive == loop_ # 0

\* C21: whatever pause() and unpause() calls are made, an unpause() on a
\* running scheduler included, the pause depth is never negative, the
\* periodic firing is active exactly when the depth is 0, and a pause() on
\* a running scheduler stops the firing however many unpause() calls came
\* before it.
C21_DepthAndFiring ==
    [][/\ paused_' >= 0
       /\ FiringActive' <=> (paused_' = 0)
       /\ (FiringActive /\ Pause) => ~FiringActive']_vars

====
